---- MODULE Spec2Model ----
(***************************************************************************)
(* SMS transactions: the search/benchmark engine (SearchAlgorithms,        *)
(* src/dsa/search_algorithms.py) and the HTTP handler (SMSAPIHandler,      *)
(* src/api/sms_api_server.py).                                             *)
(*                                                                         *)
(* Python dicts are objects: a record is a heap cell, reached through a    *)
(* reference, so that two lists can hold "the very same record" and an     *)
(* in-place assignment (transaction['id'] = i + 1) is seen through every   *)
(* alias.  A cell is a function from field names to values; a record       *)
(* without the key 'id' has no "id" in its DOMAIN.                         *)
(*                                                                         *)
(* Elapsed times are differences of two time.time() readings: an input     *)
(* the environment chooses, counted in clock ticks.  Floating-point        *)
(* quotients are modelled as exact rationals (IEEE rounding is not         *)
(* modelled).                                                              *)
(***************************************************************************)
EXTENDS Integers, Sequences, FiniteSets, TLC

VARIABLES
    heap,                 \* reference -> record (the dict objects alive)
    transactions,         \* self.transactions: sequence of references
    transactions_dict,    \* self.transactions_dict: id -> reference
    sorted_transactions,  \* self.sorted_transactions: sequence of references
    file,                 \* sms_transactions.json as the handler finds it
    frame,                \* locals of the binary_search call in progress
    pc,                   \* where the caller of the object stands
    result                \* what the last call returned / the last response

vars == <<heap, transactions, transactions_dict, sorted_transactions, file, frame, pc,
          result>>

(***************************************************************************)
(* Bounds of the model.                                                    *)
(***************************************************************************)
MaxLen == 3       \* longest list handed to SearchAlgorithms
MaxId == 3        \* largest identifier a handed-over record carries
MaxElapsed == 3   \* longest elapsed time in the timing-analysis runs
MaxBatch == 2     \* longest test_ids batch handed to benchmark_algorithms

None == 0                       \* Python's None, as a search result
Refs == 1..MaxLen               \* references of the caller's records
Ids == 1..MaxId
QueryIds == (0 - 1)..(MaxId + 1)
Ticks == {0, 1}                 \* coarse elapsed times: the clock ticked or not
Elapsed == (0 - 1)..MaxElapsed  \* time.time() is not monotonic

NoResult == [kind |-> "none"]
EmptyDict == [k \in {} |-> None]
NoFile == [exists |-> FALSE, records |-> <<>>]
NoFrame == [k \in {} |-> None]   \* no binary_search call in progress

(***************************************************************************)
(* Helpers over sequences and integers.                                    *)
(***************************************************************************)
Range(s) == {s[i] : i \in DOMAIN s}

SeqsUpTo(S, n) == UNION {[1..k -> S] : k \in 0..n}

Abs(a) == IF a < 0 THEN 0 - a ELSE a

RECURSIVE Gcd(_, _)
Gcd(a, b) == IF b = 0 THEN a ELSE Gcd(b, a % b)

\* the exact quotient a / b (b > 0), in lowest terms
Rat(a, b) ==
    LET g == Gcd(Abs(a), b)
    IN [num |-> a \div g, den |-> b \div g]

RatTimes(q, k) == Rat(q.num * k, q.den)

(***************************************************************************)
(* Records.                                                                *)
(***************************************************************************)
HasId(rec) == "id" \in DOMAIN rec

\* the caller's records: with or without an 'id'
CallerRecords == {[body |-> "sms"]} \cup {[id |-> i, body |-> "sms"] : i \in Ids}

\* x['id'] on the record that r refers to
IdOf(h, r) == h[r].id

\* transaction.get('id') == transaction_id: a record without the key gives
\* None, which equals no integer
IdIs(h, r, transaction_id) == HasId(h[r]) /\ h[r].id = transaction_id

(***************************************************************************)
(* SearchAlgorithms._prepare_data_structures                               *)
(***************************************************************************)
\* AssignIds without the test for a present 'id': every record is renumbered
RECURSIVE AssignIdsAlways(_, _, _)
AssignIdsAlways(h, txs, k) ==
    IF k > Len(txs) THEN h
    ELSE AssignIdsAlways([h EXCEPT ![txs[k]] = ("id" :> k) @@ h[txs[k]]], txs, k + 1)

\* for i, transaction in enumerate(...): if 'id' not in transaction:
\*     transaction['id'] = i + 1        (k is the 1-based position)
RECURSIVE AssignIds(_, _, _)
AssignIds(h, txs, k) ==
    IF k > Len(txs) THEN h
    ELSE LET r == txs[k]
         IN AssignIds(IF HasId(h[r]) THEN h
                      ELSE [h EXCEPT ![r] = ("id" :> k) @@ h[r]],
                      txs, k + 1)

\* {t['id']: t for t in self.transactions}: a later record overwrites
RECURSIVE DictOf(_, _, _)
DictOf(h, txs, k) ==
    IF k = 0 THEN EmptyDict
    ELSE (IdOf(h, txs[k]) :> txs[k]) @@ DictOf(h, txs, k - 1)

\* InsertSorted with the comparison turned round: a descending sort
RECURSIVE InsertSortedDescending(_, _, _)
InsertSortedDescending(h, s, r) ==
    IF s = <<>> THEN <<r>>
    ELSE IF IdOf(h, s[Len(s)]) >= IdOf(h, r) THEN Append(s, r)
    ELSE Append(InsertSortedDescending(h, SubSeq(s, 1, Len(s) - 1), r), s[Len(s)])

\* one insertion of a stable sort: r goes behind every record whose id is
\* not larger
RECURSIVE InsertSorted(_, _, _)
InsertSorted(h, s, r) ==
    IF s = <<>> THEN <<r>>
    ELSE IF IdOf(h, s[Len(s)]) <= IdOf(h, r) THEN Append(s, r)
    ELSE Append(InsertSorted(h, SubSeq(s, 1, Len(s) - 1), r), s[Len(s)])

\* sorted(self.transactions, key=lambda x: x['id']): a stable sort
RECURSIVE SortedById(_, _, _)
SortedById(h, txs, k) ==
    IF k = 0 THEN <<>>
    ELSE InsertSorted(h, SortedById(h, txs, k - 1), txs[k])

prepare_data_structures ==
    LET h == AssignIds(heap, transactions, 1)
    IN /\ heap' = h
       /\ transactions_dict' = DictOf(h, transactions, Len(transactions))
       /\ sorted_transactions' = SortedById(h, transactions, Len(transactions))

\* SearchAlgorithms(transactions_data): the object keeps the caller's list
SearchAlgorithms_init ==
    /\ pc = "caller"
    /\ transactions' = transactions
    /\ prepare_data_structures
    /\ pc' = "ready"
    /\ UNCHANGED <<file, frame, result>>

(***************************************************************************)
(* The three search strategies, as functions of the object's fields.       *)
(***************************************************************************)
RECURSIVE LinearScan(_, _, _, _)
LinearScan(h, txs, transaction_id, k) ==
    IF k > Len(txs) THEN None
    ELSE IF IdIs(h, txs[k], transaction_id) THEN txs[k]
    ELSE LinearScan(h, txs, transaction_id, k + 1)

linear_search(transaction_id) == LinearScan(heap, transactions, transaction_id, 1)

dictionary_lookup(transaction_id) ==
    IF transaction_id \in DOMAIN transactions_dict
    THEN transactions_dict[transaction_id]
    ELSE None

\* BinaryLoop moving the wrong bound: left advances when mid_id is larger
RECURSIVE BinaryLoopWrongSide(_, _, _, _, _)
BinaryLoopWrongSide(h, s, transaction_id, left, right) ==
    IF left > right THEN None
    ELSE LET mid == (left + right) \div 2
             mid_id == IdOf(h, s[mid + 1])
         IN IF mid_id = transaction_id THEN s[mid + 1]
            ELSE IF mid_id > transaction_id
                 THEN BinaryLoopWrongSide(h, s, transaction_id, mid + 1, right)
                 ELSE BinaryLoopWrongSide(h, s, transaction_id, left, mid - 1)

\* left and right are Python's 0-based indices; the sequence is 1-based
RECURSIVE BinaryLoop(_, _, _, _, _)
BinaryLoop(h, s, transaction_id, left, right) ==
    IF left > right THEN None
    ELSE LET mid == (left + right) \div 2
             mid_id == IdOf(h, s[mid + 1])
         IN IF mid_id = transaction_id THEN s[mid + 1]
            ELSE IF mid_id < transaction_id
                 THEN BinaryLoop(h, s, transaction_id, mid + 1, right)
                 ELSE BinaryLoop(h, s, transaction_id, left, mid - 1)

binary_search(transaction_id) ==
    BinaryLoop(heap, sorted_transactions, transaction_id,
               0, Len(sorted_transactions) - 1)

(***************************************************************************)
(* SearchAlgorithms.compare_algorithms                                     *)
(***************************************************************************)
\* f"{num / den:.2f}": the quotient in hundredths, rounded half to even
Format2f(num, den) ==
    LET h == (100 * num) \div den
        rem == 100 * num - h * den
    IN IF 2 * rem > den THEN h + 1
       ELSE IF 2 * rem < den THEN h
       ELSE IF h % 2 = 0 THEN h ELSE h + 1

\* f"{num / den:.2f}x faster" if den > 0 else "N/A"
SpeedImprovement(num, den) ==
    IF den > 0
    THEN [text |-> "x faster", num |-> num, den |-> den,
          hundredths |-> Format2f(num, den)]
    ELSE [text |-> "N/A"]

Min3(a, b, c) == IF a <= b /\ a <= c THEN a ELSE IF b <= c THEN b ELSE c

Max3(a, b, c) == IF a >= b /\ a >= c THEN a ELSE IF b >= c THEN b ELSE c

\* PerformanceAnalysis breaking ties the other way: linear_search first for
\* the fastest, dictionary_lookup first for the slowest
PerformanceAnalysisTiesReversed(linear_time, dict_time, binary_time) ==
    LET fastest_time == Min3(linear_time, dict_time, binary_time)
        slowest_time == Max3(linear_time, dict_time, binary_time)
    IN [fastest_algorithm |->
            IF linear_time = fastest_time THEN "linear_search"
            ELSE IF binary_time = fastest_time THEN "binary_search"
            ELSE "dictionary_lookup",
        slowest_algorithm |->
            IF dict_time = slowest_time THEN "dictionary_lookup"
            ELSE IF binary_time = slowest_time THEN "binary_search"
            ELSE "linear_search",
        speed_improvement |->
            [dictionary_vs_linear |-> SpeedImprovement(linear_time, dict_time),
             binary_vs_linear |-> SpeedImprovement(linear_time, binary_time),
             dictionary_vs_binary |-> SpeedImprovement(binary_time, dict_time)],
        dataset_size |-> Len(transactions)]

\* PerformanceAnalysis with dictionary_vs_binary divided the other way round
PerformanceAnalysisRatioSwapped(linear_time, dict_time, binary_time) ==
    LET fastest_time == Min3(linear_time, dict_time, binary_time)
        slowest_time == Max3(linear_time, dict_time, binary_time)
    IN [fastest_algorithm |->
            IF dict_time = fastest_time THEN "dictionary_lookup"
            ELSE IF binary_time = fastest_time THEN "binary_search"
            ELSE "linear_search",
        slowest_algorithm |->
            IF linear_time = slowest_time THEN "linear_search"
            ELSE IF binary_time = slowest_time THEN "binary_search"
            ELSE "dictionary_lookup",
        speed_improvement |->
            [dictionary_vs_linear |-> SpeedImprovement(linear_time, dict_time),
             binary_vs_linear |-> SpeedImprovement(linear_time, binary_time),
             dictionary_vs_binary |-> SpeedImprovement(dict_time, binary_time)],
        dataset_size |-> Len(transactions)]

\* results['performance_analysis']
PerformanceAnalysis(linear_time, dict_time, binary_time) ==
    LET fastest_time == Min3(linear_time, dict_time, binary_time)
        slowest_time == Max3(linear_time, dict_time, binary_time)
    IN [fastest_algorithm |->
            IF dict_time = fastest_time THEN "dictionary_lookup"
            ELSE IF binary_time = fastest_time THEN "binary_search"
            ELSE "linear_search",
        slowest_algorithm |->
            IF linear_time = slowest_time THEN "linear_search"
            ELSE IF binary_time = slowest_time THEN "binary_search"
            ELSE "dictionary_lookup",
        speed_improvement |->
            [dictionary_vs_linear |-> SpeedImprovement(linear_time, dict_time),
             binary_vs_linear |-> SpeedImprovement(linear_time, binary_time),
             dictionary_vs_binary |-> SpeedImprovement(binary_time, dict_time)],
        dataset_size |-> Len(transactions)]

\* results['algorithms'][name]
AlgorithmEntry(found_record, time, time_complexity, space_complexity) ==
    [found |-> found_record # None,
     execution_time |-> time,
     time_complexity |-> time_complexity,
     space_complexity |-> space_complexity,
     result |-> found_record]

\* the dictionary compare_algorithms returns
Comparison(transaction_id, linear_time, dict_time, binary_time) ==
    [kind |-> "comparison",
     transaction_id |-> transaction_id,
     algorithms |->
        [linear_search |->
            AlgorithmEntry(linear_search(transaction_id), linear_time, "O(n)", "O(1)"),
         dictionary_lookup |->
            AlgorithmEntry(dictionary_lookup(transaction_id), dict_time, "O(1)", "O(n)"),
         binary_search |->
            AlgorithmEntry(binary_search(transaction_id), binary_time, "O(log n)", "O(1)")],
     performance_analysis |-> PerformanceAnalysis(linear_time, dict_time, binary_time)]

\* compare_algorithms taking the record it finds out of the list
compare_algorithms_consuming(transaction_id, linear_time, dict_time, binary_time) ==
    /\ pc = "ready"
    /\ result' = Comparison(transaction_id, linear_time, dict_time, binary_time)
    /\ pc' = "returned"
    /\ transactions' = SelectSeq(transactions,
                                 LAMBDA r : r # linear_search(transaction_id))
    /\ UNCHANGED <<heap, transactions_dict, sorted_transactions, file, frame>>

compare_algorithms(transaction_id, linear_time, dict_time, binary_time) ==
    /\ pc = "ready"
    /\ result' = Comparison(transaction_id, linear_time, dict_time, binary_time)
    /\ pc' = "returned"
    /\ UNCHANGED <<heap, transactions, transactions_dict, sorted_transactions, file, frame>>

(***************************************************************************)
(* SearchAlgorithms.benchmark_algorithms                                   *)
(***************************************************************************)
AlgorithmNames == {"linear_search", "dictionary_lookup", "binary_search"}

\* total_time += algo_data['execution_time'], over the first k comparisons
RECURSIVE TotalTime(_, _, _)
TotalTime(detailed, algo_name, k) ==
    IF k = 0 THEN 0
    ELSE TotalTime(detailed, algo_name, k - 1)
         + detailed[k].algorithms[algo_name].execution_time

\* HitCount without the test of algo_data['found']: every comparison counts
HitCountEvery(detailed, algo_name, k) == k

\* if algo_data['found']: success_rate += 1, over the first k comparisons
RECURSIVE HitCount(_, _, _)
HitCount(detailed, algo_name, k) ==
    IF k = 0 THEN 0
    ELSE HitCount(detailed, algo_name, k - 1)
         + (IF detailed[k].algorithms[algo_name].found THEN 1 ELSE 0)

\* the per-algorithm statistics after the averaging loop
AlgorithmStats(detailed, algo_name, n) ==
    [total_time |-> TotalTime(detailed, algo_name, n),
     avg_time |-> Rat(TotalTime(detailed, algo_name, n), n),
     success_rate |-> RatTimes(Rat(HitCount(detailed, algo_name, n), n), 100)]

\* times[i] = <<linear, dictionary, binary>> elapsed for test_ids[i]
BenchmarkReport(test_ids, times) ==
    LET n == Len(test_ids)
        detailed == [i \in 1..n |->
                        Comparison(test_ids[i], times[i][1], times[i][2], times[i][3])]
    IN IF n = 0
       THEN [kind |-> "exception", type |-> "ZeroDivisionError"]
       ELSE [kind |-> "benchmark",
             test_cases |-> n,
             dataset_size |-> Len(transactions),
             algorithms |-> [a \in AlgorithmNames |-> AlgorithmStats(detailed, a, n)],
             detailed_results |-> detailed]

benchmark_algorithms(test_ids, times) ==
    /\ pc = "ready"
    /\ result' = BenchmarkReport(test_ids, times)
    /\ pc' = "returned"
    /\ UNCHANGED <<heap, transactions, transactions_dict, sorted_transactions, file, frame>>

\* the caller is done with the returned report and goes on to its next call
Discard ==
    /\ pc = "returned"
    /\ pc' = "ready"
    /\ result' = NoResult
    /\ frame' = NoFrame
    /\ UNCHANGED <<heap, transactions, transactions_dict, sorted_transactions, file>>

(***************************************************************************)
(* The engine over every bounded list a caller can hand over.              *)
(***************************************************************************)
\* lists of references, references numbered in order of first appearance
\* (the same object may stand at several positions)
CallerLists ==
    {txs \in SeqsUpTo(Refs, MaxLen) :
        \A i \in DOMAIN txs :
            \/ txs[i] = 1
            \/ \E j \in 1..(i - 1) : txs[j] >= txs[i] - 1}

Init ==
    \E txs \in CallerLists :
        \E h \in [Range(txs) -> CallerRecords] :
            /\ heap = h
            /\ transactions = txs
            /\ transactions_dict = EmptyDict
            /\ sorted_transactions = <<>>
            /\ file = NoFile
            /\ frame = NoFrame
            /\ pc = "caller"
            /\ result = NoResult

Compare ==
    \E transaction_id \in QueryIds :
        \E linear_time \in Ticks, dict_time \in Ticks, binary_time \in Ticks :
            compare_algorithms(transaction_id, linear_time, dict_time, binary_time)

Next == SearchAlgorithms_init \/ Compare \/ Discard

Spec == Init /\ [][Next]_vars

(***************************************************************************)
(* The engine on create_sample_data(), as main() runs it: timing analysis  *)
(* over wide elapsed times (PerfSpec) and benchmarks (BenchSpec).          *)
(***************************************************************************)
create_sample_data ==
    [r \in 1..3 |->
        [id |-> r,
         body |-> IF r = 1 THEN "You have received 2000 RWF from Jane Smith"
                  ELSE IF r = 2 THEN "Your payment of 1,000 RWF has been completed"
                  ELSE "Account balance: 50,000 RWF"]]

SampleInit ==
    /\ heap = create_sample_data
    /\ transactions = <<1, 2, 3>>
    /\ transactions_dict = EmptyDict
    /\ sorted_transactions = <<>>
    /\ file = NoFile
    /\ frame = NoFrame
    /\ pc = "caller"
    /\ result = NoResult

TimedCompare ==
    \E transaction_id \in QueryIds :
        \E linear_time \in Elapsed, dict_time \in Elapsed, binary_time \in Elapsed :
            compare_algorithms(transaction_id, linear_time, dict_time, binary_time)

PerfNext == SearchAlgorithms_init \/ TimedCompare \/ Discard

PerfSpec == SampleInit /\ [][PerfNext]_vars

\* identifiers main() benchmarks with: two present in the sample, one absent
BenchIds == {1, 2, 10}

Benchmark ==
    \E test_ids \in SeqsUpTo(BenchIds, MaxBatch) :
        \E times \in [DOMAIN test_ids -> Ticks \X Ticks \X Ticks] :
            benchmark_algorithms(test_ids, times)

BenchCompare ==
    \E transaction_id \in BenchIds :
        \E linear_time \in Ticks, dict_time \in Ticks, binary_time \in Ticks :
            compare_algorithms(transaction_id, linear_time, dict_time, binary_time)

BenchNext == SearchAlgorithms_init \/ BenchCompare \/ Benchmark \/ Discard

BenchSpec == SampleInit /\ [][BenchNext]_vars

(***************************************************************************)
(* binary_search statement by statement: frame holds the locals of the     *)
(* call in progress (transaction_id, left, right and, once assigned, mid); *)
(* one step is one test of the while condition with the body that follows. *)
(* The call runs to completion once entered (there is no suspension        *)
(* point), which the weak fairness of the loop step states.                *)
(***************************************************************************)
\* s[i] of a Python list: <<element>>, or <<>> where Python raises IndexError
Subscript(s, i) ==
    IF 0 <= i /\ i < Len(s) THEN <<s[i + 1]>>
    ELSE IF 0 - Len(s) <= i /\ i < 0 THEN <<s[Len(s) + i + 1]>>
    ELSE <<>>

\* start_time = time.time(); left, right = 0, len(self.sorted_transactions) - 1
binary_search_enter(transaction_id) ==
    /\ pc = "ready"
    /\ pc' = "searching"
    /\ frame' = [transaction_id |-> transaction_id,
                 left |-> 0,
                 right |-> Len(sorted_transactions) - 1]
    /\ UNCHANGED <<heap, transactions, transactions_dict, sorted_transactions, file, result>>

BinaryReturn(transaction, time) ==
    [kind |-> "binary_search", transaction |-> transaction, time |-> time]

\* the loop step with left = mid in place of left = mid + 1
binary_search_loop_left_kept ==
    /\ pc = "searching"
    /\ IF frame.left > frame.right
       THEN /\ \E time \in Ticks : result' = BinaryReturn(None, time)
            /\ pc' = "returned"
            /\ frame' = frame
       ELSE LET mid == (frame.left + frame.right) \div 2
                probed == Subscript(sorted_transactions, mid)
            IN IF probed = <<>>
               THEN /\ result' = [kind |-> "exception", type |-> "IndexError"]
                    /\ pc' = "returned"
                    /\ frame' = ("mid" :> mid) @@ frame
               ELSE IF IdOf(heap, probed[1]) = frame.transaction_id
               THEN /\ \E time \in Ticks : result' = BinaryReturn(probed[1], time)
                    /\ pc' = "returned"
                    /\ frame' = ("mid" :> mid) @@ frame
               ELSE /\ frame' = IF IdOf(heap, probed[1]) < frame.transaction_id
                                THEN ("mid" :> mid) @@ [frame EXCEPT !.left = mid]
                                ELSE ("mid" :> mid) @@ [frame EXCEPT !.right = mid - 1]
                    /\ UNCHANGED <<pc, result>>
    /\ UNCHANGED <<heap, transactions, transactions_dict, sorted_transactions, file>>

\* while left <= right: ... (one test of the condition and the body or the
\* return that follows it)
binary_search_loop ==
    /\ pc = "searching"
    /\ IF frame.left > frame.right
       THEN /\ \E time \in Ticks : result' = BinaryReturn(None, time)
            /\ pc' = "returned"
            /\ frame' = frame
       ELSE LET mid == (frame.left + frame.right) \div 2
                probed == Subscript(sorted_transactions, mid)
            IN IF probed = <<>>
               THEN /\ result' = [kind |-> "exception", type |-> "IndexError"]
                    /\ pc' = "returned"
                    /\ frame' = ("mid" :> mid) @@ frame
               ELSE IF IdOf(heap, probed[1]) = frame.transaction_id
               THEN /\ \E time \in Ticks : result' = BinaryReturn(probed[1], time)
                    /\ pc' = "returned"
                    /\ frame' = ("mid" :> mid) @@ frame
               ELSE /\ frame' = IF IdOf(heap, probed[1]) < frame.transaction_id
                                THEN ("mid" :> mid) @@ [frame EXCEPT !.left = mid + 1]
                                ELSE ("mid" :> mid) @@ [frame EXCEPT !.right = mid - 1]
                    /\ UNCHANGED <<pc, result>>
    /\ UNCHANGED <<heap, transactions, transactions_dict, sorted_transactions, file>>

BinarySearch == \E transaction_id \in QueryIds : binary_search_enter(transaction_id)

SearchNext == SearchAlgorithms_init \/ BinarySearch \/ binary_search_loop \/ Discard

SearchSpec == Init /\ [][SearchNext]_vars /\ WF_vars(binary_search_loop)

(***************************************************************************)
(* SMSAPIHandler (src/api/sms_api_server.py).  The handler object holds    *)
(* transactions and transactions_dict; socketserver builds a handler for   *)
(* a connection (SMSAPIHandler_init) and the do_* methods serve the        *)
(* requests that reach it.  result is the last response written.           *)
(***************************************************************************)
MaxStore == 3     \* the model stops creating records at this list length
MaxLoad == 2      \* records in sms_transactions.json
ListLimit == 100  \* self.transactions[:100]

Bodies == {"sent", "received"}
PathIds == (0 - 1)..(MaxStore + 1)

\* what parse_path returns: <<endpoint, transaction_id>>
Paths ==
    {<<"transactions", None>>, <<"invalid", None>>}
        \cup {<<"transaction", i>> : i \in PathIds}

\* Authorization headers: none, a wrong password, a valid pair
AuthHeaders == {"", "Basic admin:letmein", "Basic admin:password123"}

VALID_CREDENTIALS == {"Basic admin:password123", "Basic user:userpass456"}

authenticate(auth_header) == auth_header \in VALID_CREDENTIALS

\* request bodies: what json.loads makes of them
\*   no_length: no Content-Length header (int(None) raises TypeError)
\*   bad_json: json.loads raises JSONDecodeError
\*   number: valid JSON that is no object
\*   partial: an object without the required field 'date'
\*   object: an object with address, body and date
Payloads ==
    {[kind |-> k] : k \in {"no_length", "bad_json", "number", "partial"}}
        \cup {[kind |-> "object", body |-> b] : b \in Bodies}

\* a reference for a new object: none of the live ones
NewRef(h) == Cardinality(DOMAIN h) + 1

\* References are opaque: the live objects are renamed after their place in
\* the list (every object the index holds is in the list, and no object is
\* in the list twice), and the unreachable ones are dropped.
Renamed(h, txs, d) ==
    [heap |-> [i \in DOMAIN txs |-> h[txs[i]]],
     transactions |-> [i \in DOMAIN txs |-> i],
     transactions_dict |-> [k \in DOMAIN d |-> CHOOSE i \in DOMAIN txs : txs[i] = d[k]]]

auth_error == [kind |-> "response", status |-> 401, error |-> "Unauthorized"]

send_error_response(message, status_code) ==
    [kind |-> "response",
     status |-> status_code,
     error |-> IF status_code = 400 THEN "Bad Request"
               ELSE IF status_code = 404 THEN "Not Found"
               ELSE "Internal Server Error",
     message |-> message]

\* load_transactions on a fresh handler: every record of the file gets its
\* 1-based position as id; a missing file leaves the handler empty
LoadedHeap(f) ==
    [r \in DOMAIN f.records |-> [id |-> r, body |-> f.records[r]]]

load_transactions ==
    IF file.exists
    THEN /\ heap' = LoadedHeap(file)
         /\ transactions' = [r \in DOMAIN file.records |-> r]
         /\ transactions_dict' = [i \in DOMAIN file.records |-> i]
    ELSE /\ heap' = EmptyDict
         /\ transactions' = <<>>
         /\ transactions_dict' = EmptyDict

\* SMSAPIHandler(...): a new handler object, loaded from the file
SMSAPIHandler_init ==
    /\ pc = "serving"
    /\ load_transactions
    /\ UNCHANGED <<sorted_transactions, file, frame, pc, result>>

api_linear_search(transaction_id) == LinearScan(heap, transactions, transaction_id, 1)

api_dictionary_lookup(transaction_id) ==
    IF transaction_id \in DOMAIN transactions_dict
    THEN transactions_dict[transaction_id]
    ELSE None

Unchanged_store == UNCHANGED <<heap, transactions, transactions_dict>>

do_GET(auth_header, path) ==
    /\ pc = "serving"
    /\ Unchanged_store
    /\ UNCHANGED <<sorted_transactions, file, frame, pc>>
    /\ result' =
        IF ~authenticate(auth_header) THEN auth_error
        ELSE IF path[1] = "transactions"
        THEN [kind |-> "response", status |-> 200,
              message |-> "All SMS transactions retrieved successfully",
              count |-> Len(transactions),
              transactions |->
                 [i \in 1..(IF Len(transactions) < ListLimit THEN Len(transactions)
                            ELSE ListLimit) |-> heap[transactions[i]]]]
        ELSE IF path[1] = "transaction" /\ path[2] # 0
        THEN LET linear_result == api_linear_search(path[2])
                 dict_result == api_dictionary_lookup(path[2])
             IN IF dict_result # None
                THEN [kind |-> "response", status |-> 200,
                      message |-> "retrieved successfully",
                      transaction |-> heap[dict_result],
                      search_comparison |->
                         [linear_search_result |-> linear_result # None,
                          dictionary_lookup_result |-> dict_result # None]]
                ELSE send_error_response("not found", 404)
        ELSE send_error_response("Invalid endpoint", 400)

\* the record POST builds: new_transaction['id'] = len(self.transactions) + 1
do_POST(auth_header, path, payload) ==
    /\ pc = "serving"
    /\ UNCHANGED <<sorted_transactions, file, frame, pc>>
    /\ IF ~authenticate(auth_header)
       THEN result' = auth_error /\ Unchanged_store
       ELSE IF path[1] # "transactions"
       THEN /\ result' = send_error_response("Invalid endpoint for POST", 400)
            /\ Unchanged_store
       ELSE IF payload.kind = "bad_json"
       THEN /\ result' = send_error_response("Invalid JSON in request body", 400)
            /\ Unchanged_store
       ELSE IF payload.kind \in {"no_length", "number"}
       THEN /\ result' = send_error_response("Error creating transaction", 500)
            /\ Unchanged_store
       ELSE IF payload.kind = "partial"
       THEN /\ result' = send_error_response("Missing required field", 400)
            /\ Unchanged_store
       ELSE LET r == NewRef(heap)
                new_transaction == [id |-> Len(transactions) + 1, body |-> payload.body]
            IN /\ Len(transactions) < MaxStore
               /\ heap' = (r :> new_transaction) @@ heap
               /\ transactions' = Append(transactions, r)
               /\ transactions_dict' = (new_transaction.id :> r) @@ transactions_dict
               /\ result' = [kind |-> "response", status |-> 201,
                             message |-> "Transaction created successfully",
                             transaction |-> new_transaction,
                             total_transactions |-> Len(transactions) + 1]

\* self.transactions[i] = updated_data at the first record carrying the id
RECURSIVE ReplaceFirst(_, _, _, _, _)
ReplaceFirst(h, txs, transaction_id, r, k) ==
    IF k > Len(txs) THEN txs
    ELSE IF IdIs(h, txs[k], transaction_id) THEN [txs EXCEPT ![k] = r]
    ELSE ReplaceFirst(h, txs, transaction_id, r, k + 1)

do_PUT(auth_header, path, payload) ==
    /\ pc = "serving"
    /\ UNCHANGED <<sorted_transactions, file, frame, pc>>
    /\ IF ~authenticate(auth_header)
       THEN result' = auth_error /\ Unchanged_store
       ELSE IF path[1] # "transaction" \/ path[2] = 0
       THEN /\ result' = send_error_response("Invalid endpoint for PUT", 400)
            /\ Unchanged_store
       ELSE IF api_dictionary_lookup(path[2]) = None
       THEN /\ result' = send_error_response("not found", 404)
            /\ Unchanged_store
       ELSE IF payload.kind = "bad_json"
       THEN /\ result' = send_error_response("Invalid JSON in request body", 400)
            /\ Unchanged_store
       ELSE IF payload.kind \in {"no_length", "number"}
       THEN /\ result' = send_error_response("Error updating transaction", 500)
            /\ Unchanged_store
       ELSE LET r == NewRef(heap)
                updated_data ==
                    IF payload.kind = "partial"
                    THEN [id |-> path[2]]
                    ELSE [id |-> path[2], body |-> payload.body]
                new == Renamed((r :> updated_data) @@ heap,
                               ReplaceFirst(heap, transactions, path[2], r, 1),
                               [transactions_dict EXCEPT ![path[2]] = r])
            IN /\ heap' = new.heap
               /\ transactions' = new.transactions
               /\ transactions_dict' = new.transactions_dict
               /\ result' = [kind |-> "response", status |-> 200,
                             message |-> "updated successfully",
                             transaction |-> updated_data]

\* [t for t in self.transactions if t.get('id') != transaction_id]
Without(h, txs, transaction_id) ==
    SelectSeq(txs, LAMBDA r : ~IdIs(h, r, transaction_id))

do_DELETE(auth_header, path) ==
    /\ pc = "serving"
    /\ UNCHANGED <<sorted_transactions, file, frame, pc>>
    /\ IF ~authenticate(auth_header)
       THEN result' = auth_error /\ Unchanged_store
       ELSE IF path[1] # "transaction" \/ path[2] = 0
       THEN /\ result' = send_error_response("Invalid endpoint for DELETE", 400)
            /\ Unchanged_store
       ELSE IF api_dictionary_lookup(path[2]) = None
       THEN /\ result' = send_error_response("not found", 404)
            /\ Unchanged_store
       ELSE LET existing_transaction == api_dictionary_lookup(path[2])
                txs == Without(heap, transactions, path[2])
                d == [i \in DOMAIN transactions_dict \ {path[2]} |-> transactions_dict[i]]
                new == Renamed(heap, txs, d)
            IN /\ heap' = new.heap
               /\ transactions' = new.transactions
               /\ transactions_dict' = new.transactions_dict
               /\ result' = [kind |-> "response", status |-> 200,
                             message |-> "deleted successfully",
                             deleted_transaction |-> heap[existing_transaction],
                             remaining_transactions |-> Len(txs)]

Files ==
    {NoFile} \cup {[exists |-> TRUE, records |-> recs] : recs \in SeqsUpTo(Bodies, MaxLoad)}

\* a handler as __init__ leaves it, for every file it may find
ApiInit ==
    \E f \in Files :
        /\ file = f
        /\ frame = NoFrame
        /\ heap = (IF f.exists THEN LoadedHeap(f) ELSE EmptyDict)
        /\ transactions = [r \in DOMAIN f.records |-> r]
        /\ transactions_dict = [i \in DOMAIN f.records |-> i]
        /\ sorted_transactions = <<>>
        /\ pc = "serving"
        /\ result = NoResult

Get == \E a \in AuthHeaders, path \in Paths : do_GET(a, path)

Post == \E a \in AuthHeaders, path \in Paths, payload \in Payloads : do_POST(a, path, payload)

Put == \E a \in AuthHeaders, path \in Paths, payload \in Payloads : do_PUT(a, path, payload)

Delete == \E a \in AuthHeaders, path \in Paths : do_DELETE(a, path)

ApiNext == SMSAPIHandler_init \/ Get \/ Post \/ Put \/ Delete

ApiSpec == ApiInit /\ [][ApiNext]_vars

(***************************************************************************)
(* Properties of the engine.                                               *)
(***************************************************************************)
Returned(kind) == pc = "returned" /\ result.kind = kind

\* no two positions of the store carry the same identifier
DistinctIds ==
    \A i, j \in DOMAIN transactions :
        i # j => IdOf(heap, transactions[i]) # IdOf(heap, transactions[j])

Occurrences(s, x) == Cardinality({i \in DOMAIN s : s[i] = x})

\* C1: on a store whose identifiers are all present and pairwise distinct,
\* linear_search, dictionary_lookup and binary_search return, for every
\* queried identifier, the same found/absent verdict and the same record;
\* the record is the one carrying the identifier, absent when none does.
C1_Agreement ==
    (Returned("comparison") /\ DistinctIds) =>
        LET a == result.algorithms
            here == {r \in Range(transactions) : IdOf(heap, r) = result.transaction_id}
        IN /\ a.linear_search.result = a.dictionary_lookup.result
           /\ a.dictionary_lookup.result = a.binary_search.result
           /\ a.linear_search.found = a.dictionary_lookup.found
           /\ a.dictionary_lookup.found = a.binary_search.found
           /\ a.linear_search.found <=> here # {}
           /\ a.linear_search.found => a.linear_search.result \in here

\* a record found at the far end of an unsorted three-record store
C1_Witness ==
    /\ Returned("comparison")
    /\ DistinctIds
    /\ Len(transactions) = 3
    /\ IdOf(heap, transactions[1]) > IdOf(heap, transactions[2])
    /\ result.algorithms.binary_search.found
    /\ result.algorithms.linear_search.result = transactions[3]

\* C4: after the Index Builder has run, sorted_transactions is a permutation
\* of the store (every record as often as the store holds it) and its
\* identifiers never decrease from front to back, duplicates included.
C4_SortedPermutation ==
    pc # "caller" =>
        /\ Len(sorted_transactions) = Len(transactions)
        /\ \A r \in DOMAIN heap :
              Occurrences(sorted_transactions, r) = Occurrences(transactions, r)
        /\ \A i \in 1..(Len(sorted_transactions) - 1) :
              IdOf(heap, sorted_transactions[i]) <= IdOf(heap, sorted_transactions[i + 1])

\* an unsorted store with a duplicate identifier has been indexed
C4_Witness ==
    /\ pc = "ready"
    /\ Len(transactions) = 3
    /\ transactions # sorted_transactions
    /\ ~DistinctIds
    /\ Cardinality(Range(transactions)) = 3

\* C7: compare_algorithms rejects a non-positive identifier with InvalidInput
\* before any strategy runs: no comparison report is ever returned for one.
C7_NonPositiveRejected ==
    Returned("comparison") => result.transaction_id > 0

TimeOf(algo_name) == result.algorithms[algo_name].execution_time

\* the first strategy of the order whose elapsed time is the target
FirstWithTime(order, target) ==
    LET k == CHOOSE i \in DOMAIN order :
                /\ TimeOf(order[i]) = target
                /\ \A j \in 1..(i - 1) : TimeOf(order[j]) # target
    IN order[k]

\* C8: fastest_algorithm is the first of dictionary_lookup, binary_search,
\* linear_search whose time is the minimum; slowest_algorithm the first of
\* linear_search, binary_search, dictionary_lookup whose time is the maximum.
C8_FastestSlowest ==
    Returned("comparison") =>
        LET all == {TimeOf(a) : a \in AlgorithmNames}
            lo == CHOOSE t \in all : \A u \in all : t <= u
            hi == CHOOSE t \in all : \A u \in all : t >= u
        IN /\ result.performance_analysis.fastest_algorithm =
                FirstWithTime(<<"dictionary_lookup", "binary_search", "linear_search">>, lo)
           /\ result.performance_analysis.slowest_algorithm =
                FirstWithTime(<<"linear_search", "binary_search", "dictionary_lookup">>, hi)

\* all three strategies took no time at all
C8_Witness ==
    /\ Returned("comparison")
    /\ \A a \in AlgorithmNames : TimeOf(a) = 0
    /\ result.performance_analysis.fastest_algorithm = "dictionary_lookup"
    /\ result.performance_analysis.slowest_algorithm = "linear_search"

\* the pairs of speed_improvement: <<key, time divided, time divided by>>
SpeedPairs ==
    {<<"dictionary_vs_linear", "linear_search", "dictionary_lookup">>,
     <<"binary_vs_linear", "linear_search", "binary_search">>,
     <<"dictionary_vs_binary", "binary_search", "dictionary_lookup">>}

SpeedEntry(key) == result.performance_analysis.speed_improvement[key]

Max(a, b) == IF a >= b THEN a ELSE b

Min(a, b) == IF a <= b THEN a ELSE b

\* e is the quotient num / den to two decimals
IsRatio(e, num, den) ==
    /\ e.text = "x faster"
    /\ e.num * den = num * e.den
    /\ 2 * Abs(100 * num - e.hundredths * den) <= den

\* C9 as stated: every speed ratio is the slower time of its pair divided by
\* the faster one, and is "N/A" when that denominator is zero (read for
\* elapsed times that are not negative).
C9_SlowerOverFaster ==
    (Returned("comparison") /\ \A a \in AlgorithmNames : TimeOf(a) >= 0) =>
        \A p \in SpeedPairs :
            LET slower == Max(TimeOf(p[2]), TimeOf(p[3]))
                faster == Min(TimeOf(p[2]), TimeOf(p[3]))
            IN /\ faster = 0 => SpeedEntry(p[1]).text = "N/A"
               /\ faster > 0 => IsRatio(SpeedEntry(p[1]), slower, faster)

\* C9 amended: every speed ratio is a fixed quotient (linear over dictionary,
\* linear over binary, binary over dictionary), whichever of the two is the
\* slower, to two decimals; it is "N/A" exactly when the time divided by is
\* not positive.
C9_FixedQuotient ==
    Returned("comparison") =>
        \A p \in SpeedPairs :
            /\ TimeOf(p[3]) <= 0 <=> SpeedEntry(p[1]).text = "N/A"
            /\ TimeOf(p[3]) > 0 => IsRatio(SpeedEntry(p[1]), TimeOf(p[2]), TimeOf(p[3]))

\* the dictionary lookup took longer than the linear scan, and one ratio has
\* a zero denominator
C9_Witness ==
    /\ Returned("comparison")
    /\ TimeOf("linear_search") = 1
    /\ TimeOf("dictionary_lookup") = 2
    /\ TimeOf("binary_search") = 0
    /\ SpeedEntry("dictionary_vs_linear").hundredths = 50
    /\ SpeedEntry("binary_vs_linear").text = "N/A"

\* C2: benchmark_algorithms on an empty batch fails with InvalidInput and
\* never reaches the division by the batch size: the only error a call
\* ends with is InvalidInput.
C2_EmptyBatchInvalidInput ==
    Returned("exception") => result.type = "InvalidInput"

Found(algo_name) ==
    {i \in DOMAIN result.detailed_results :
        result.detailed_results[i].algorithms[algo_name].found}

Present(transaction_id) ==
    \E r \in Range(transactions) : IdIs(heap, r, transaction_id)

\* C3: for a batch of n >= 1 identifiers the success_rate of each strategy is
\* 100 * (number of comparison reports in which the strategy found a
\* record) / n, and it is 100 when every identifier of the batch is in the
\* store.
C3_SuccessRate ==
    Returned("benchmark") =>
        \A a \in AlgorithmNames :
            LET rate == result.algorithms[a].success_rate
                n == Len(result.detailed_results)
            IN /\ n = result.test_cases
               /\ rate.den > 0
               /\ rate.num * n = 100 * Cardinality(Found(a)) * rate.den
               /\ (\A i \in 1..n : Present(result.detailed_results[i].transaction_id))
                    => rate = [num |-> 100, den |-> 1]

\* a batch of two with one identifier in the store and one not: 50 percent
C3_Witness ==
    /\ Returned("benchmark")
    /\ result.test_cases = 2
    /\ \A a \in AlgorithmNames :
          /\ Cardinality(Found(a)) = 1
          /\ result.algorithms[a].success_rate = [num |-> 50, den |-> 1]

\* the comparison reports a call handed back
ComparisonsIn(res) ==
    IF res.kind = "comparison" THEN {res}
    ELSE IF res.kind = "benchmark" THEN Range(res.detailed_results)
    ELSE {}

\* what the three strategies answer for an identifier, as the fields stand
Verdicts(transaction_id) ==
    [linear_search |-> linear_search(transaction_id),
     dictionary_lookup |-> dictionary_lookup(transaction_id),
     binary_search |-> binary_search(transaction_id)]

ReportedVerdicts(c) == [a \in AlgorithmNames |-> c.algorithms[a].result]

\* C10: a compare_algorithms or benchmark_algorithms call leaves the store,
\* the keyed index and the sorted sequence as they were, and every
\* comparison it hands back for an identifier is what the three strategies
\* answer for that identifier after the call (so a repeated call returns the
\* same verdict and record).
C10_Idempotent ==
    [][(pc = "ready" /\ pc' = "returned") =>
            /\ UNCHANGED <<heap, transactions, transactions_dict, sorted_transactions>>
            /\ \A c \in ComparisonsIn(result') :
                  /\ ReportedVerdicts(c) = Verdicts(c.transaction_id)'
                  /\ \A a \in AlgorithmNames :
                        c.algorithms[a].found <=> c.algorithms[a].result # None]_vars

\* a benchmark that asked for the same present identifier twice
C10_Witness ==
    /\ Returned("benchmark")
    /\ result.test_cases = 2
    /\ result.detailed_results[1].transaction_id = result.detailed_results[2].transaction_id
    /\ result.detailed_results[1].algorithms.linear_search.found

Served(transaction_id) ==
    IF api_dictionary_lookup(transaction_id) = None THEN <<>>
    ELSE <<heap[api_dictionary_lookup(transaction_id)]>>

Responded(status, message) ==
    /\ result.kind = "response"
    /\ result.status = status
    /\ result.message = message

\* C11: a record changed through the API stays changed for the requests that
\* follow: when the handler for the next connection is set up after a
\* successful POST, GET of the new identifier still answers the created
\* record; after a successful DELETE, GET of the identifier still answers
\* 404; after a successful PUT, GET still answers the updated record; the
\* store is not loaded again between requests.
C11_ChangesPersist ==
    [][SMSAPIHandler_init =>
        /\ Responded(201, "Transaction created successfully") =>
              Served(result.transaction.id)' = <<result.transaction>>
        /\ Responded(200, "deleted successfully") =>
              Served(result.deleted_transaction.id)' = <<>>
        /\ Responded(200, "updated successfully") =>
              Served(result.transaction.id)' = <<result.transaction>>
        /\ UNCHANGED <<heap, transactions, transactions_dict>>]_vars

(***************************************************************************)
(* Properties of the Index Builder.                                        *)
(***************************************************************************)
\* the first place of the list at which the object r stands
FirstPlace(txs, r) == CHOOSE k \in DOMAIN txs : txs[k] = r /\ \A j \in 1..(k - 1) : txs[j] # r

\* C12 as stated: the Index Builder leaves the caller's list with the same
\* length and order and every record with exactly the fields and values it
\* had.
C12_StoreUntouched ==
    [][SearchAlgorithms_init => (transactions' = transactions /\ heap' = heap)]_vars

\* C12 amended: the Index Builder leaves the caller's list with the same
\* length and order and the same objects; a record that carried an
\* identifier keeps exactly its fields and values; a record that carried
\* none gains the field id, set to the 1-based position at which the loop
\* first meets it, and keeps its other fields and values.
C12_OnlyMissingIdsAdded ==
    [][SearchAlgorithms_init =>
        /\ transactions' = transactions
        /\ DOMAIN heap' = DOMAIN heap
        /\ \A r \in DOMAIN heap :
              IF HasId(heap[r]) THEN heap'[r] = heap[r]
              ELSE /\ DOMAIN heap'[r] = DOMAIN heap[r] \cup {"id"}
                   /\ \A f \in DOMAIN heap[r] : heap'[r][f] = heap[r][f]
                   /\ heap'[r].id = FirstPlace(transactions, r)]_vars

\* an indexed list of three objects, each carrying its position as
\* identifier: what the builder makes of three records without identifiers
C12_Witness ==
    /\ pc = "ready"
    /\ Len(transactions) = 3
    /\ Cardinality(Range(transactions)) = 3
    /\ \A k \in DOMAIN transactions : IdOf(heap, transactions[k]) = k
    /\ sorted_transactions = transactions

\* the records of the list are separate objects, some carry no identifier
\* and the identifiers carried are pairwise distinct (positive by
\* construction of the inputs)
PartlyIdentified ==
    /\ Cardinality(Range(transactions)) = Len(transactions)
    /\ \E i \in DOMAIN transactions : ~HasId(heap[transactions[i]])
    /\ \A i, j \in DOMAIN transactions :
          (i # j /\ HasId(heap[transactions[i]]) /\ HasId(heap[transactions[j]]))
              => heap[transactions[i]].id # heap[transactions[j]].id

\* C13: when the Index Builder runs on a sequence in which some records
\* lack an identifier and the identifiers present are pairwise distinct
\* positive integers, afterwards every record carries an identifier and no
\* two records share one.
C13_IdentifiersCompleted ==
    [][(SearchAlgorithms_init /\ PartlyIdentified) =>
          (/\ \A i \in DOMAIN transactions : HasId(heap[transactions[i]])
           /\ \A i, j \in DOMAIN transactions :
                 i # j => heap[transactions[i]].id # heap[transactions[j]].id)']_vars

(***************************************************************************)
(* Properties of the binary search loop.                                   *)
(***************************************************************************)
\* C14: for every sorted sequence (the empty one included) and every target
\* identifier, binary_search terminates: each loop step that does not
\* return strictly shrinks the interval [left, right]; every probed
\* midpoint is a valid index of the sequence; the search returns absent
\* exactly when left exceeds right, and otherwise returns the record probed
\* last, which carries the target identifier; every search entered returns.
C14_BinarySearchTerminates ==
    /\ [][(binary_search_loop /\ pc' = "searching") =>
             /\ frame.left <= frame'.left
             /\ frame'.right <= frame.right
             /\ frame'.right - frame'.left < frame.right - frame.left]_vars
    /\ [](("mid" \in DOMAIN frame) =>
             (0 <= frame.mid /\ frame.mid < Len(sorted_transactions)))
    /\ []((pc = "returned" /\ frame # NoFrame) =>
             /\ result.kind = "binary_search"
             /\ (result.transaction = None) <=> (frame.left > frame.right)
             /\ (result.transaction # None) =>
                   /\ "mid" \in DOMAIN frame
                   /\ result.transaction = sorted_transactions[frame.mid + 1]
                   /\ IdOf(heap, result.transaction) = frame.transaction_id)
    /\ (pc = "searching") ~> (pc = "returned")

\* a search over three records that probed, moved both bounds past each
\* other and returned absent
C14_Witness ==
    /\ pc = "returned"
    /\ Len(sorted_transactions) = 3
    /\ "mid" \in DOMAIN frame
    /\ frame.left > frame.right
    /\ frame.left > 0
    /\ frame.right < 2
    /\ result.kind = "binary_search"
    /\ result.transaction = None

====
